---- MODULE Spec2Model ----
(***************************************************************************)
(* Blog post REST API: the Post model (models/post.js), the post           *)
(* controller's six handlers (controllers/postController.js) and the       *)
(* process bootstrap (index.js, config/database.js, models/index.js).      *)
(*                                                                         *)
(* The storage layer is the posts table behind the ORM.  A request is      *)
(* handled by one action: the handler's body from its first statement to   *)
(* the response, every ORM call included.  The handlers that await two     *)
(* ORM calls (findByPk, then update or destroy) are modelled a second      *)
(* time as two steps, one per await, so that requests handled at the same  *)
(* time interleave at the points where node lets them.                     *)
(*                                                                         *)
(* models/index.js assigns its exports to `module.export` (line 34), so    *)
(* as shipped require('./models') yields an empty object.  The model       *)
(* binds Post and syncDatabase to the definitions the file lists for       *)
(* export, which is the only reading under which a handler is reachable.   *)
(***************************************************************************)
EXTENDS Integers, Sequences, FiniteSets, TLC

\* Bounds of the model.
MaxPosts == 2
MaxEdge == 1
MaxInFlight == 2

\* len: { args: [1, 200] } of the title attribute.
TitleMin == 1
TitleMax == 200

VARIABLES pc, conn, sync, exitCode, posts, nextId, now, req, res, calls, flights

vars ==
  <<pc, conn, sync, exitCode, posts, nextId, now, req, res, calls, flights>>

(***************************************************************************)
(* JavaScript values carried by a JSON request body.                       *)
(***************************************************************************)
Undefined == [t |-> "undefined", s |-> <<>>, b |-> FALSE]
Null == [t |-> "null", s |-> <<>>, b |-> FALSE]
Str(s) == [t |-> "string", s |-> s, b |-> FALSE]
Bool(b) == [t |-> "boolean", s |-> <<>>, b |-> b]

Repeat(ch, n) == [i \in 1..n |-> ch]

\* ToBoolean: undefined, null, "" and false are falsy.
Truthy(v) ==
  CASE v.t = "string" -> Len(v.s) > 0
    [] v.t = "boolean" -> v.b
    [] OTHER -> FALSE

\* The `!` operator.
Not(v) == Bool(~Truthy(v))

Whitespace == {" ", "\t", "\r", "\n"}

(***************************************************************************)
(* Attribute validation of the Post model.                                 *)
(***************************************************************************)
\* notEmpty: the value does not match /^[\s\t\r\n]*$/.
notEmpty(v) == \E i \in 1..Len(v.s) : v.s[i] \notin Whitespace

C9_Mutant_len(v, min, max) == Len(v.s) >= min

\* len: the length lies in [min, max].
len(v, min, max) == Len(v.s) >= min /\ Len(v.s) <= max

\* allowNull: false.
notNull(v) == v.t \notin {"null", "undefined"}

ValidateTitle(v) ==
  IF ~notNull(v) THEN <<"Title is required">>
  ELSE (IF notEmpty(v) THEN <<>> ELSE <<"Title cannot be empty">>)
       \o (IF len(v, TitleMin, TitleMax) THEN <<>>
           ELSE <<"Title must be between 1 and 200 characters">>)

ValidateContent(v) ==
  IF ~notNull(v) THEN <<"Content is required">>
  ELSE IF notEmpty(v) THEN <<>> ELSE <<"Content cannot be empty">>

ValidateAuthor(v) ==
  IF ~notNull(v) THEN <<"Author is required">>
  ELSE IF notEmpty(v) THEN <<>> ELSE <<"Author cannot be empty">>

\* published: BOOLEAN with a default and no allowNull, no validate.
ValidatePublished(v) == <<>>

DefaultPublished == Bool(FALSE)

\* Instance validation: the messages of every failing attribute.
Validate(values) ==
  ValidateTitle(values.title) \o ValidateContent(values.content)
    \o ValidateAuthor(values.author) \o ValidatePublished(values.published)

(***************************************************************************)
(* The posts table.  posts maps the id of every stored row to the row;     *)
(* nextId is the AUTOINCREMENT sequence of the id column; now is the       *)
(* clock the ORM stamps createdAt from.                                    *)
(***************************************************************************)
NoPost ==
  [id |-> 0, title |-> Undefined, content |-> Undefined, author |-> Undefined,
   published |-> Undefined, createdAt |-> 0]

StorageUp == conn = "ok" /\ sync = "ok"

C3_Mutant_findByPk(id) ==
  IF DOMAIN posts = {} THEN [id |-> 0, title |-> Undefined, content |-> Undefined,
                             author |-> Undefined, published |-> Undefined,
                             createdAt |-> 0]
  ELSE posts[CHOOSE i \in DOMAIN posts : TRUE]

\* Post.findByPk(id): the row, or null.
findByPk(id) == IF id \in DOMAIN posts THEN posts[id] ELSE NoPost

Rows == {posts[i] : i \in DOMAIN posts}

C6_Mutant_First(S) ==
  CHOOSE p \in S : \A q \in S :
    \/ p.createdAt < q.createdAt
    \/ p.createdAt = q.createdAt /\ p.id <= q.id

\* The row ORDER BY createdAt DESC puts first: the latest createdAt; rows of
\* one timestamp come in table (id) order.
First(S) ==
  CHOOSE p \in S : \A q \in S :
    \/ p.createdAt > q.createdAt
    \/ p.createdAt = q.createdAt /\ p.id <= q.id

RECURSIVE OrderByCreatedAtDesc(_)
OrderByCreatedAtDesc(S) ==
  IF S = {} THEN <<>>
  ELSE LET p == First(S) IN <<p>> \o OrderByCreatedAtDesc(S \ {p})

\* Post.findAll({ order: [['createdAt', 'DESC']] }).
findAll == OrderByCreatedAtDesc(Rows)

C7_Mutant_destroy(id) == posts

\* post.destroy().
destroy(id) == [i \in DOMAIN posts \ {id} |-> posts[i]]

(***************************************************************************)
(* Requests and responses.                                                 *)
(***************************************************************************)
Fields == {"title", "content", "author", "published"}

\* What a request body may carry: the four fields the handlers destructure,
\* and an id, which no handler reads.  The id is the number the body gives,
\* 0 for a body without one.
BodyFields == Fields \cup {"id"}

\* The values tried for each field of a request body.
Values ==
  [title |-> {Undefined, Null, Str(<<>>), Str(<<" ">>), Str(<<"a">>),
              Str(Repeat("a", TitleMax)), Str(Repeat("a", TitleMax + 1))},
   content |-> {Undefined, Null, Str(<<>>), Str(<<" ">>), Str(<<"c">>), Str(<<"d">>)},
   author |-> {Undefined, Null, Str(<<>>), Str(<<" ">>), Str(<<"x">>), Str(<<"y">>)},
   published |-> {Undefined, Null, Bool(TRUE), Bool(FALSE)},
   id |-> {0, MaxPosts}]

AllBodies ==
  [title : Values.title, content : Values.content, author : Values.author,
   published : Values.published, id : Values.id]

\* A body that holds no field.
EmptyBody ==
  [title |-> Undefined, content |-> Undefined, author |-> Undefined,
   published |-> Undefined, id |-> 0]

\* A body createPost accepts.
CreateBase ==
  [title |-> Str(<<"a">>), content |-> Str(<<"c">>), author |-> Str(<<"x">>),
   published |-> Undefined, id |-> 0]

\* The bodies that differ from base in at most n fields.
Around(base, n) ==
  {b : b \in {x \in AllBodies : Cardinality({f \in BodyFields : x[f] # base[f]}) <= n}}

CreateRich == Around(CreateBase, MaxEdge)

UpdateRich == Around(EmptyBody, MaxEdge)

\* The bodies of CreateRich that createPost answers with 400.
CreateRejected ==
  {b : b \in {x \in CreateRich :
                \/ \E f \in {"title", "content", "author"} : ~Truthy(x[f])
                \/ Validate([x EXCEPT !.published = DefaultPublished]) # <<>>}}

\* The request bodies tried: the first post is created and updated with bodies
\* that differ from the accepted body, or from the empty body, in at most
\* MaxEdge fields; the posts after it are created with the accepted body or
\* one of the bodies the manual check or a validator rejects, and updated with
\* the empty body.
CreateBodies(id) ==
  IF id = 1 THEN CreateRich
  ELSE {CreateBase} \cup CreateRejected

UpdateBodies(id) == IF id = 1 THEN UpdateRich ELSE {EmptyBody}

\* The :id route parameter.
Ids == 1..(MaxPosts + 1)

\* The request as the route table dispatches it: the handler and the :id parameter.
Request(op, id) == [op |-> op, id |-> id]

Json(status, post) ==
  [status |-> status, kind |-> "post", post |-> post, list |-> <<>>, error |-> <<>>]

JsonList(status, list) ==
  [status |-> status, kind |-> "list", post |-> NoPost, list |-> list, error |-> <<>>]

\* { error: <messages joined by ', '> }, kept as the list of messages.
JsonError(status, messages) ==
  [status |-> status, kind |-> "error", post |-> NoPost, list |-> <<>>,
   error |-> messages]

Send(status) ==
  [status |-> status, kind |-> "empty", post |-> NoPost, list |-> <<>>, error |-> <<>>]

NotFound == JsonError(404, <<"Post not found">>)

(***************************************************************************)
(* The handlers.                                                           *)
(***************************************************************************)
Respond(r, response, orm) ==
  /\ req' = r
  /\ res' = response
  /\ calls' = orm

getAllPosts ==
  /\ pc = "listening"
  /\ IF StorageUp
       THEN Respond(Request("getAllPosts", 0), JsonList(200, findAll),
                    <<"findAll">>)
       ELSE Respond(Request("getAllPosts", 0),
                    JsonError(500, <<"Failed to fetch posts">>), <<"findAll">>)
  /\ UNCHANGED <<pc, conn, sync, exitCode, posts, nextId, now, flights>>

getPostById(id) ==
  /\ pc = "listening"
  /\ LET r == Request("getPostById", id)
         post == findByPk(id)
     IN IF ~StorageUp
          THEN Respond(r, JsonError(500, <<"Failed to fetch post">>), <<"findByPk">>)
          ELSE IF post = NoPost
                 THEN Respond(r, NotFound, <<"findByPk">>)
                 ELSE Respond(r, Json(200, post), <<"findByPk">>)
  /\ UNCHANGED <<pc, conn, sync, exitCode, posts, nextId, now, flights>>

C5_Mutant_Given(value, current) == IF Truthy(value) THEN value ELSE current

\* A field of the body when it is not undefined, the post's own value otherwise.
Given(value, current) == IF value # Undefined THEN value ELSE current

C2_Mutant_MissingField(body) == ~Truthy(body.title) \/ ~Truthy(body.content)

\* The manual validation of createPost: a required field is missing or falsy.
MissingField(body) ==
  ~Truthy(body.title) \/ ~Truthy(body.content) \/ ~Truthy(body.author)

C1_Mutant_CreateValues(body) ==
  [title |-> body.title, content |-> body.content, author |-> body.author,
   published |-> Given(body.published, Bool(FALSE))]

\* The values createPost hands to Post.create, the default filled in.
CreateValues(body) ==
  [title |-> body.title, content |-> body.content, author |-> body.author,
   published |-> DefaultPublished]

\* Post.create inserts a row: the values pass validation and the table answers.
Inserts(body) ==
  ~MissingField(body) /\ Validate(CreateValues(body)) = <<>> /\ StorageUp

C12_Mutant_NewRow(id, values, at) ==
  [id |-> 1, title |-> values.title, content |-> values.content,
   author |-> values.author, published |-> values.published, createdAt |-> at]

\* The row Post.create inserts: the id the table assigns, the values, the
\* creation time.
NewRow(id, values, at) ==
  [id |-> id, title |-> values.title, content |-> values.content,
   author |-> values.author, published |-> values.published, createdAt |-> at]

createPost(body, tick) ==
  /\ pc = "listening"
  /\ Inserts(body) => nextId <= MaxPosts
  /\ ~Inserts(body) => tick = 0
  /\ LET r == Request("createPost", 0)
         values == CreateValues(body)
         post == NewRow(nextId, values, now + tick)
     IN IF MissingField(body)
          THEN /\ Respond(r, JsonError(400,
                     <<"All fields are required: title, content, author">>), <<>>)
               /\ UNCHANGED <<posts, nextId, now>>
          ELSE IF Validate(values) # <<>>
                 THEN /\ Respond(r, JsonError(400, Validate(values)), <<"create">>)
                      /\ UNCHANGED <<posts, nextId, now>>
                 ELSE IF ~StorageUp
                        THEN /\ Respond(r, JsonError(500, <<"Failed to create post">>),
                                        <<"create">>)
                             /\ UNCHANGED <<posts, nextId, now>>
                        ELSE /\ posts' = [i \in DOMAIN posts \cup {nextId} |->
                                            IF i = nextId THEN post ELSE posts[i]]
                             /\ nextId' = nextId + 1
                             /\ now' = now + tick
                             /\ Respond(r, Json(201, post), <<"create">>)
  /\ UNCHANGED <<pc, conn, sync, exitCode, flights>>

\* The values updatePost hands to post.update.
UpdateValues(post, body) ==
  [title |-> Given(body.title, post.title),
   content |-> Given(body.content, post.content),
   author |-> Given(body.author, post.author),
   published |-> Given(body.published, post.published)]

\* post.update(values) once validated: the row with the values set.
Updated(post, values) ==
  [post EXCEPT !.title = values.title, !.content = values.content,
               !.author = values.author, !.published = values.published]

updatePost(id, body) ==
  /\ pc = "listening"
  /\ LET r == Request("updatePost", id)
         post == findByPk(id)
         values == UpdateValues(post, body)
     IN IF ~StorageUp
          THEN /\ Respond(r, JsonError(500, <<"Failed to update post">>), <<"findByPk">>)
               /\ UNCHANGED posts
          ELSE IF post = NoPost
                 THEN /\ Respond(r, NotFound, <<"findByPk">>)
                      /\ UNCHANGED posts
                 ELSE IF Validate(values) # <<>>
                        THEN /\ Respond(r, JsonError(400, Validate(values)),
                                        <<"findByPk", "update">>)
                             /\ UNCHANGED posts
                        ELSE /\ posts' = [posts EXCEPT ![id] = Updated(post, values)]
                             /\ Respond(r, Json(200, Updated(post, values)),
                                        <<"findByPk", "update">>)
  /\ UNCHANGED <<pc, conn, sync, exitCode, nextId, now, flights>>

\* The values togglePublish hands to post.update.
ToggleValues(post) ==
  [title |-> post.title, content |-> post.content, author |-> post.author,
   published |-> Not(post.published)]

togglePublish(id) ==
  /\ pc = "listening"
  /\ LET r == Request("togglePublish", id)
         post == findByPk(id)
     IN IF ~StorageUp
          THEN /\ Respond(r, JsonError(500, <<"Failed to toggle publish status">>),
                          <<"findByPk">>)
               /\ UNCHANGED posts
          ELSE IF post = NoPost
                 THEN /\ Respond(r, NotFound, <<"findByPk">>)
                      /\ UNCHANGED posts
                 ELSE /\ posts' = [posts EXCEPT ![id] = Updated(post, ToggleValues(post))]
                      /\ Respond(r, Json(200, Updated(post, ToggleValues(post))),
                                 <<"findByPk", "update">>)
  /\ UNCHANGED <<pc, conn, sync, exitCode, nextId, now, flights>>

deletePost(id) ==
  /\ pc = "listening"
  /\ LET r == Request("deletePost", id)
         post == findByPk(id)
     IN IF ~StorageUp
          THEN /\ Respond(r, JsonError(500, <<"Failed to delete post">>), <<"findByPk">>)
               /\ UNCHANGED posts
          ELSE IF post = NoPost
                 THEN /\ Respond(r, NotFound, <<"findByPk">>)
                      /\ UNCHANGED posts
                 ELSE /\ posts' = destroy(id)
                      /\ Respond(r, Send(204), <<"findByPk", "destroy">>)
  /\ UNCHANGED <<pc, conn, sync, exitCode, nextId, now, flights>>

\* One request, handled from its first statement to its response.
Handle ==
  \/ getAllPosts
  \/ \E id \in Ids : getPostById(id)
  \/ \E body \in CreateBodies(nextId), tick \in {0, 1} : createPost(body, tick)
  \/ \E id \in Ids : \E body \in UpdateBodies(id) : updatePost(id, body)
  \/ \E id \in Ids : togglePublish(id)
  \/ \E id \in Ids : deletePost(id)

NoRequest == Request("none", 0)

EmptyTable == [i \in {} |-> NoPost]

(***************************************************************************)
(* The handlers of two ORM calls, one step per await.  Between the step    *)
(* that resolves findByPk and the step that resolves post.update or        *)
(* post.destroy the handler is suspended and holds the instance findByPk   *)
(* gave it; other requests run meanwhile.                                  *)
(***************************************************************************)
Slots == 1..MaxInFlight

\* No handler suspended in the slot.
NoFlight == [op |-> "none", id |-> 0, post |-> NoPost]

NoFlights == [s \in Slots |-> NoFlight]

\* The update bodies of the interleaved requests: published alone, or a title
\* the validator rejects.
FlightBodies ==
  {b : b \in {x \in UpdateRich : /\ x.content = Undefined /\ x.author = Undefined
                                  /\ x.title \in {Undefined, Str(<<>>)}}}

\* updatePost up to its second await: findByPk has resolved, the values are
\* set on the instance and validated, the UPDATE is on its way.
updatePostFound(s, id, body) ==
  /\ pc = "listening" /\ StorageUp
  /\ flights[s] = NoFlight
  /\ LET r == Request("updatePost", id)
         post == findByPk(id)
         values == UpdateValues(post, body)
     IN IF post = NoPost
          THEN Respond(r, NotFound, <<"findByPk">>) /\ UNCHANGED flights
          ELSE IF Validate(values) # <<>>
                 THEN /\ Respond(r, JsonError(400, Validate(values)),
                                 <<"findByPk", "update">>)
                      /\ UNCHANGED flights
                 ELSE /\ flights' = [flights EXCEPT ![s] =
                                       [op |-> "updatePost", id |-> id,
                                        post |-> Updated(post, values)]]
                      /\ UNCHANGED <<req, res, calls>>
  /\ UNCHANGED <<pc, conn, sync, exitCode, posts, nextId, now>>

\* togglePublish up to its second await.
togglePublishFound(s, id) ==
  /\ pc = "listening" /\ StorageUp
  /\ flights[s] = NoFlight
  /\ LET r == Request("togglePublish", id)
         post == findByPk(id)
     IN IF post = NoPost
          THEN Respond(r, NotFound, <<"findByPk">>) /\ UNCHANGED flights
          ELSE /\ flights' = [flights EXCEPT ![s] =
                                [op |-> "togglePublish", id |-> id,
                                 post |-> Updated(post, ToggleValues(post))]]
               /\ UNCHANGED <<req, res, calls>>
  /\ UNCHANGED <<pc, conn, sync, exitCode, posts, nextId, now>>

\* deletePost up to its second await.
deletePostFound(s, id) ==
  /\ pc = "listening" /\ StorageUp
  /\ flights[s] = NoFlight
  /\ LET r == Request("deletePost", id)
         post == findByPk(id)
     IN IF post = NoPost
          THEN Respond(r, NotFound, <<"findByPk">>) /\ UNCHANGED flights
          ELSE /\ flights' = [flights EXCEPT ![s] =
                                [op |-> "deletePost", id |-> id, post |-> post]]
               /\ UNCHANGED <<req, res, calls>>
  /\ UNCHANGED <<pc, conn, sync, exitCode, posts, nextId, now>>

\* UPDATE posts SET ... WHERE id = <the instance's id>: the row of that id
\* takes the instance's values; with no such row the statement changes
\* nothing and reports no error.
save(instance) ==
  IF instance.id \in DOMAIN posts
    THEN [posts EXCEPT ![instance.id] = Updated(posts[instance.id], instance)]
    ELSE posts

\* post.update has resolved: updatePost or togglePublish answers 200 with the
\* instance it holds.
updateResolved(s) ==
  /\ pc = "listening" /\ StorageUp
  /\ flights[s].op \in {"updatePost", "togglePublish"}
  /\ posts' = save(flights[s].post)
  /\ Respond(Request(flights[s].op, flights[s].id), Json(200, flights[s].post),
             <<"findByPk", "update">>)
  /\ flights' = [flights EXCEPT ![s] = NoFlight]
  /\ UNCHANGED <<pc, conn, sync, exitCode, nextId, now>>

\* post.destroy has resolved: deletePost answers 204.
destroyResolved(s) ==
  /\ pc = "listening" /\ StorageUp
  /\ flights[s].op = "deletePost"
  /\ posts' = destroy(flights[s].id)
  /\ Respond(Request("deletePost", flights[s].id), Send(204),
             <<"findByPk", "destroy">>)
  /\ flights' = [flights EXCEPT ![s] = NoFlight]
  /\ UNCHANGED <<pc, conn, sync, exitCode, nextId, now>>

\* The requests of the interleaved view: createPost awaits one ORM call and is
\* one step; the others take a step per await.
HandleInterleaved ==
  \/ \E tick \in {0, 1} : createPost(CreateBase, tick)
  \/ \E s \in Slots, id \in Ids : \E body \in FlightBodies : updatePostFound(s, id, body)
  \/ \E s \in Slots, id \in Ids : togglePublishFound(s, id)
  \/ \E s \in Slots, id \in Ids : deletePostFound(s, id)
  \/ \E s \in Slots : updateResolved(s)
  \/ \E s \in Slots : destroyResolved(s)

(***************************************************************************)
(* The process bootstrap: startServer of index.js.                         *)
(***************************************************************************)
\* testConnection: sequelize.authenticate() resolves or rejects; the catch
\* block logs the error and the function returns.
testConnection(authenticated) ==
  /\ pc = "start"
  /\ conn' = IF authenticated THEN "ok" ELSE "failed"
  /\ pc' = "sync"
  /\ UNCHANGED <<sync, exitCode, posts, nextId, now, req, res, calls, flights>>

\* syncDatabase: sequelize.sync({ alter: true }) resolves or rejects; the catch
\* block logs the error and the function returns.
syncDatabase(synced) ==
  /\ pc = "sync"
  /\ sync' = IF synced THEN "ok" ELSE "failed"
  /\ pc' = "listen"
  /\ UNCHANGED <<conn, exitCode, posts, nextId, now, req, res, calls, flights>>

\* app.listen(PORT, ...): the server listens, or listen throws (a PORT out of
\* range) and the catch block of startServer calls process.exit(1).
listen(portInRange) ==
  /\ pc = "listen"
  /\ IF portInRange
       THEN pc' = "listening" /\ UNCHANGED exitCode
       ELSE pc' = "exited" /\ exitCode' = 1
  /\ UNCHANGED <<conn, sync, posts, nextId, now, req, res, calls, flights>>

startServer ==
  \/ \E authenticated \in BOOLEAN : testConnection(authenticated)
  \/ \E synced \in BOOLEAN : syncDatabase(synced)
  \/ \E portInRange \in BOOLEAN : listen(portInRange)

(***************************************************************************)
(* Specifications.                                                         *)
(***************************************************************************)
NoExchange ==
  /\ posts = EmptyTable
  /\ nextId = 1
  /\ now = 0
  /\ req = NoRequest
  /\ res = Send(0)
  /\ calls = <<>>
  /\ flights = NoFlights

\* The server listening on a connected, synchronised, empty table.
Init ==
  /\ pc = "listening"
  /\ conn = "ok"
  /\ sync = "ok"
  /\ exitCode = 0
  /\ NoExchange

Next == Handle

\* Request handling on an available storage layer.
Spec == Init /\ [][Next]_vars

NextConcurrent == HandleInterleaved

\* Request handling with the handlers suspended at their awaits.
SpecConcurrent == Init /\ [][NextConcurrent]_vars

\* The process as node starts it.
InitProcess ==
  /\ pc = "start"
  /\ conn = "pending"
  /\ sync = "pending"
  /\ exitCode = 0
  /\ NoExchange

NextProcess == startServer \/ Handle

\* Bootstrap, then request handling on whatever storage the bootstrap left.
SpecStartup == InitProcess /\ [][NextProcess]_vars

(***************************************************************************)
(* Properties.                                                             *)
(***************************************************************************)
Required == {"title", "content", "author"}

C2_MissingOrEmpty(body) ==
  \E f \in Required : body[f] \in {Undefined, Null, Str(<<>>)}

\* C2: createPost with any of title, content or author missing or empty
\* responds 400, makes no storage call and leaves the table as it was.
C2_CreateRejectsMissing ==
  [][req'.op = "createPost" =>
       \A body \in CreateBodies(nextId) :
         (createPost(body, 0) /\ C2_MissingOrEmpty(body)) =>
           /\ res'.status = 400
           /\ calls' = <<>>
           /\ posts' = posts
           /\ nextId' = nextId
           /\ Len(findAll') = Len(findAll)]_vars

C2_Witness ==
  /\ req.op = "createPost"
  /\ res.status = 400
  /\ calls = <<>>
  /\ posts # EmptyTable

\* A string of at least one character.
NonEmpty(v) == v.t = "string" /\ Len(v.s) >= 1

\* A string with a character that is not whitespace.
NonBlank(v) == v.t = "string" /\ \E i \in 1..Len(v.s) : v.s[i] \notin Whitespace

\* What createPost answers a body it accepts, and what getPostById answers next.
C1_Created(body) ==
  /\ res'.status = 201
  /\ res'.post.id \notin DOMAIN posts
  /\ res'.post.id \in DOMAIN posts'
  /\ posts'[res'.post.id] = res'.post
  /\ res'.post.title = body.title
  /\ res'.post.content = body.content
  /\ res'.post.author = body.author
  /\ res'.post.published = Bool(FALSE)

C1_Fetched ==
  (req.op = "createPost" /\ res.status = 201
     /\ req'.op = "getPostById" /\ req'.id = res.post.id) =>
    /\ res'.status = 200
    /\ res'.post.title = res.post.title
    /\ res'.post.content = res.post.content
    /\ res'.post.author = res.post.author
    /\ res'.post.published = Bool(FALSE)

C4_Witness ==
  /\ req.op = "togglePublish"
  /\ res.status = 200
  /\ res.post.published = Bool(FALSE)

OnlyPublishedFalse == [EmptyBody EXCEPT !.published = Bool(FALSE)]

IdsOf(list) == [k \in 1..Len(list) |-> list[k].id]

C9_Wanted(post, body) ==
  [f \in Fields |-> IF body[f] # Undefined THEN body[f] ELSE post[f]]

C9_WellFormed(values) ==
  /\ NonEmpty(values.title)
  /\ Len(values.title.s) <= TitleMax
  /\ NonEmpty(values.content)
  /\ NonEmpty(values.author)

====
